---- MODULE Spec2Model ----
(***************************************************************************)
(* Login-streak engine of the student well-being application               *)
(* (src/api/streaks.js, src/api/auth.js), over the two tables it uses:     *)
(* login_history and streak_tracking; with the reader of login_history in  *)
(* src/api/moodTracker.js and the AuthProvider of                          *)
(* src/contexts/AuthContext.jsx, which records the login at sign-in.       *)
(*                                                                         *)
(* Calendar days are integers (day numbers).  format(new Date(),           *)
(* 'yyyy-MM-dd') is the day number of the clock `now`; differenceInDays of *)
(* two such dates is their difference in whole days (date-fns, in a time   *)
(* zone without daylight-saving shifts).  Every await of a store call is   *)
(* one step; the synchronous code up to the next await belongs to it.  A   *)
(* store call either succeeds or fails (StoreUnavailable); supabase-js     *)
(* returns the failure in {error}, it does not throw.                      *)
(*                                                                         *)
(* streak_tracking is keyed by student_id (the upsert of updateStreak      *)
(* names no onConflict column, so it resolves on the primary key): an      *)
(* upsert replaces the student's row, an insert of a second row fails.     *)
(***************************************************************************)
EXTENDS Integers, Sequences, FiniteSets

VARIABLES
    now,             \* the clock: the calendar day `new Date()` falls on
    accounts,        \* per user id: "none", "auth" (auth user only), or the role
    login_history,   \* table login_history: rows [student_id, login_date, id]
    streak_tracking, \* table streak_tracking: rows keyed by student_id
    call,            \* per client (tab): the call in flight, its locals, its result
    seen,            \* what the sequential caller observed around its last calls
    ach,             \* getStreakAchievements: the argument and the value returned
    calc,            \* the streak computation of updateStreak: its arguments and its row
    auth             \* AuthProvider of one tab: its React state, the session, its tasks

vars == <<now, accounts, login_history, streak_tracking, call, seen, ach, calc, auth>>

----------------------------------------------------------------------------
(* Bounds of the model *)

\* last day the clock reaches in Spec and SpecSeq
MaxDay == 3
\* last day of the login histories SpecRecompute starts from
MaxDate == 10
\* largest currentStreak handed to getStreakAchievements in SpecAchievements
MaxStreak == 370
\* longest list of login dates handed to the streak computation in SpecLists
MaxListLen == 3
\* last day the clock reaches in SpecAuth: the tab is open over one midnight
MaxAuthDay == 1

Students == {"s1"}
\* two clients (tabs) whose calls interleave, and one caller whose calls are
\* made one after the other
Procs == {"tab1", "tab2"}
Caller == "caller"
\* the two asynchronous tasks of AuthProvider that call the store
AuthTasks == {"initializeAuth", "onAuthStateChange"}
Clients == Procs \cup {Caller} \cup AuthTasks

\* SQL NULL in a date column (last_login_date is not set by the inserts)
NullDate == -1

\* getLoginCalendar(studentId, days = 90)
CalendarDays == 90

NoError == "null"
StoreUnavailable == "StoreUnavailable"
UniqueViolation == "23505"
AlreadyRegistered == "user_already_exists"
NoRow == "PGRST116"
NoUserFound == "No user found"

\* JavaScript null where a user, a profile or a session is expected
NoUser == "null"

\* profiles.role (auth.js lines 26 and 84)
Roles == {"student", "counselor"}

----------------------------------------------------------------------------
(* Pure helpers of updateStreak *)

Max(a, b) == IF a >= b THEN a ELSE b

differenceInDays(dateLeft, dateRight) == dateLeft - dateRight

RECURSIVE InsertDesc(_, _)
InsertDesc(d, s) ==
    IF s = <<>> THEN <<d>>
    ELSE IF d >= Head(s) THEN <<d>> \o s
    ELSE <<Head(s)>> \o InsertDesc(d, Tail(s))

\* the list taken in the order the store returned it
Unsorted(s) == s

\* logins.map(l => l.login_date).sort((a, b) => new Date(b) - new Date(a))
RECURSIVE SortDesc(_)
SortDesc(s) == IF s = <<>> THEN <<>> ELSE InsertDesc(Head(s), SortDesc(Tail(s)))

----------------------------------------------------------------------------
(* The two tables and the queries the code sends *)

LoginRows(s) == {r \in login_history : r.student_id = s}

LoginDatesOf(s) == {r.login_date : r \in LoginRows(s)}

StreakRows(s) == {r \in streak_tracking : r.student_id = s}

\* a plain insert into a table without the UNIQUE constraint: a second row
InsertLoginAgain(table, s, d) ==
    table \cup {[student_id |-> s, login_date |-> d,
                 id |-> 1 + Cardinality({r \in table : r.student_id = s /\ r.login_date = d})]}

\* the conflict resolved on student_id alone, without ignoreDuplicates: the
\* student's row is overwritten by the new date
UpsertLoginPerStudent(table, s, d) ==
    {r \in table : r.student_id # s} \cup {[student_id |-> s, login_date |-> d, id |-> 1]}

\* .upsert({student_id, login_date}, {onConflict: 'student_id,login_date',
\*          ignoreDuplicates: true}): INSERT ... ON CONFLICT DO NOTHING
UpsertLoginIgnoreDuplicates(table, s, d) ==
    IF \E r \in table : r.student_id = s /\ r.login_date = d
    THEN table
    ELSE table \cup {[student_id |-> s, login_date |-> d, id |-> 1]}

\* .select('login_date').eq('student_id', s).order('login_date', {ascending: false}):
\* one entry per row, newest first
RECURSIVE OrderDesc(_)
OrderDesc(rows) ==
    IF rows = {} THEN <<>>
    ELSE LET r == CHOOSE x \in rows : \A y \in rows :
                      \/ x.login_date > y.login_date
                      \/ x.login_date = y.login_date /\ x.id >= y.id
         IN  <<r.login_date>> \o OrderDesc(rows \ {r})

SelectLoginDates(s) == OrderDesc(LoginRows(s))

\* .select('login_date').eq('student_id', s).eq('login_date', d).single():
\* data is non-null exactly when one row matches
SingleLogin(s, d) ==
    Cardinality({r \in LoginRows(s) : r.login_date = d}) = 1

\* .from('streak_tracking').upsert(row): the student's row is replaced as a whole
UpsertStreak(table, row) ==
    {r \in table : r.student_id # row.student_id} \cup {row}

\* the row both inserts of a new summary send: counters 0, last_login_date unset
ZeroStreakRow(s) ==
    [student_id |-> s, current_streak |-> 0, longest_streak |-> 0,
     last_login_date |-> NullDate, total_login_days |-> 0]

----------------------------------------------------------------------------
(* updateStreak: the computation between the select and the upsert *)

\* the loop of lines 70-78, from index i on (1-based: sd[i-1], sd[i])
\* the walk without its break: consecutive pairs behind a gap are counted too
RECURSIVE WalkCurrentNoBreak(_, _, _)
WalkCurrentNoBreak(sd, i, currentStreak) ==
    IF i > Len(sd) THEN currentStreak
    ELSE IF differenceInDays(sd[i - 1], sd[i]) = 1
         THEN WalkCurrentNoBreak(sd, i + 1, currentStreak + 1)
         ELSE WalkCurrentNoBreak(sd, i + 1, currentStreak)

RECURSIVE WalkCurrent(_, _, _)
WalkCurrent(sd, i, currentStreak) ==
    IF i > Len(sd) THEN currentStreak
    ELSE IF differenceInDays(sd[i - 1], sd[i]) = 1
         THEN WalkCurrent(sd, i + 1, currentStreak + 1)
         ELSE currentStreak

\* no grace day: the streak counts only when the newest login is today's
currentStreakNoGrace(sortedDates, today) ==
    IF differenceInDays(today, sortedDates[1]) < 1 THEN WalkCurrent(sortedDates, 2, 1) ELSE 0

currentStreakOf(sortedDates, today) ==
    LET mostRecentLogin == sortedDates[1]
        daysSinceLastLogin == differenceInDays(today, mostRecentLogin)
    IN  IF daysSinceLastLogin <= 1 THEN WalkCurrent(sortedDates, 2, 1) ELSE 0

\* the loop without its else branch: tempStreak is never reset to 1
RECURSIVE ScanLongestNoReset(_, _, _, _)
ScanLongestNoReset(sd, i, tempStreak, longestStreak) ==
    IF i > Len(sd) THEN longestStreak
    ELSE IF differenceInDays(sd[i - 1], sd[i]) = 1
         THEN ScanLongestNoReset(sd, i + 1, tempStreak + 1, Max(longestStreak, tempStreak + 1))
         ELSE ScanLongestNoReset(sd, i + 1, tempStreak, longestStreak)

\* the loop of lines 85-94
RECURSIVE ScanLongest(_, _, _, _)
ScanLongest(sd, i, tempStreak, longestStreak) ==
    IF i > Len(sd) THEN longestStreak
    ELSE IF differenceInDays(sd[i - 1], sd[i]) = 1
         THEN ScanLongest(sd, i + 1, tempStreak + 1, Max(longestStreak, tempStreak + 1))
         ELSE ScanLongest(sd, i + 1, 1, longestStreak)

longestStreakOf(sortedDates, currentStreak) ==
    Max(ScanLongest(sortedDates, 2, 1, 1), currentStreak)

\* total_login_days counted from the pairs of the list: one short
StreakPayloadOneShort(s, logins, today) ==
    LET sortedDates == SortDesc(logins)
        currentStreak == currentStreakOf(sortedDates, today)
    IN  [student_id |-> s,
         current_streak |-> currentStreak,
         longest_streak |-> longestStreakOf(sortedDates, currentStreak),
         last_login_date |-> today,
         total_login_days |-> Len(logins) - 1]

\* the row updateStreak upserts for a non-empty list of logins
StreakPayload(s, logins, today) ==
    LET sortedDates == SortDesc(logins)
        currentStreak == currentStreakOf(sortedDates, today)
    IN  [student_id |-> s,
         current_streak |-> currentStreak,
         longest_streak |-> longestStreakOf(sortedDates, currentStreak),
         last_login_date |-> today,
         total_login_days |-> Len(logins)]

----------------------------------------------------------------------------
(* Calls in flight *)

\* a client with no call in flight and nothing returned yet
NoCall ==
    [pc |-> "done", op |-> "none", studentId |-> "none",
     today |-> NullDate,        \* recordLogin line 10, needsStreakMaintenance line 218
     yesterday |-> NullDate,    \* needsStreakMaintenance line 219
     streakToday |-> NullDate,  \* updateStreak line 55
     logins |-> <<>>,           \* updateStreak: the login dates selected
     todayLogin |-> FALSE,      \* needsStreakMaintenance: data of the first query
     error |-> NoError,         \* the error the call returned
     streakError |-> NoError,   \* the error updateStreak returned to recordLogin
     streakData |-> {},         \* getStreakData: the row returned
     needsMaintenance |-> FALSE,
     startDate |-> NullDate,    \* getLoginCalendar line 167
     loginDates |-> <<>>,       \* getLoginCalendar, getLoginConsistency: the dates returned
     queryFailed |-> FALSE]     \* needsStreakMaintenance: a query came back with an error

NoSeen ==
    [logins |-> {}, streak |-> {},
     prev |-> [op |-> "none", studentId |-> "none", today |-> NullDate,
               streakToday |-> NullDate, clean |-> FALSE]]

\* every store step of the finished call c succeeded
Clean(c) == c.error # StoreUnavailable /\ c.streakError # StoreUnavailable

\* a new call of client p on student s: the client has taken the last result.
\* For the sequential caller `seen` keeps the student's rows as they are now
\* and the outcome of the call before
Begin(p, s, c) ==
    /\ call[p].pc = "done"
    /\ call' = [call EXCEPT ![p] = c]
    /\ seen' = IF p = Caller
               THEN [logins |-> LoginRows(s), streak |-> StreakRows(s),
                     prev |-> [op |-> call[p].op, studentId |-> call[p].studentId,
                               today |-> call[p].today, streakToday |-> call[p].streakToday,
                               clean |-> Clean(call[p])]]
               ELSE seen

Tick ==
    /\ now < MaxDay
    /\ now' = now + 1
    /\ UNCHANGED <<accounts, login_history, streak_tracking, call, seen, ach, calc, auth>>

----------------------------------------------------------------------------
(* recordLogin and updateStreak *)

\* recordLogin(studentId) up to its first await (lines 8-24)
recordLoginCall(p, s) ==
    /\ accounts[s] = "student"
    /\ Begin(p, s, [NoCall EXCEPT !.pc = "rl_upsert", !.op = "recordLogin",
                                  !.studentId = s, !.today = now])
    /\ UNCHANGED <<now, accounts, login_history, streak_tracking, ach, calc, auth>>

\* recordLogin keeping the count itself: the login also bumps total_login_days
\* of the stored summary in place
recordLoginUpsertCounting(p) ==
    /\ call[p].pc = "rl_upsert"
    /\ \E ok \in BOOLEAN :
         IF ok
         THEN /\ login_history' =
                   UpsertLoginIgnoreDuplicates(login_history, call[p].studentId, call[p].today)
              /\ streak_tracking' =
                   {IF r.student_id = call[p].studentId
                    THEN [r EXCEPT !.total_login_days = @ + 1] ELSE r : r \in streak_tracking}
              /\ call' = [call EXCEPT ![p].pc = "us_select"]
         ELSE /\ call' = [call EXCEPT ![p].pc = "done", ![p].error = StoreUnavailable]
              /\ UNCHANGED <<login_history, streak_tracking>>
    /\ UNCHANGED <<now, accounts, seen, ach, calc, auth>>

\* the upsert into login_history returns (lines 13-26, 32-34), and on success
\* updateStreak starts and sends its select (lines 29, 40-47)
recordLoginUpsert(p) ==
    /\ call[p].pc = "rl_upsert"
    /\ \E ok \in BOOLEAN :
         IF ok
         THEN /\ login_history' =
                   UpsertLoginIgnoreDuplicates(login_history, call[p].studentId, call[p].today)
              /\ call' = [call EXCEPT ![p].pc = "us_select"]
         ELSE /\ call' = [call EXCEPT ![p].pc = "done", ![p].error = StoreUnavailable]
              /\ UNCHANGED login_history
    /\ UNCHANGED <<now, accounts, streak_tracking, seen, ach, calc, auth>>

\* updateStreak(studentId) called on its own, up to its first await (lines 40-47)
updateStreakCall(p, s) ==
    /\ accounts[s] = "student"
    /\ Begin(p, s, [NoCall EXCEPT !.pc = "us_select", !.op = "updateStreak", !.studentId = s])
    /\ UNCHANGED <<now, accounts, login_history, streak_tracking, ach, calc, auth>>

\* updateStreak returns {error: e}; recordLogin awaits it, drops the value and
\* returns {error: null} (lines 29-31)
updateStreakReturn(c, e) ==
    [c EXCEPT !.pc = "done", !.streakError = e, !.logins = <<>>,
              !.error = IF c.op = "recordLogin" THEN NoError ELSE e]

\* updateStreak writing the zero summary when the student has no login
updateStreakSelectWritingZero(p) ==
    /\ call[p].pc = "us_select"
    /\ \E ok \in BOOLEAN :
         IF ~ok
         THEN /\ call' = [call EXCEPT ![p] = updateStreakReturn(call[p], StoreUnavailable)]
              /\ UNCHANGED streak_tracking
         ELSE LET logins == SelectLoginDates(call[p].studentId)
              IN  IF Len(logins) = 0
                  THEN /\ call' = [call EXCEPT ![p] = updateStreakReturn(call[p], NoError)]
                       /\ streak_tracking' =
                            UpsertStreak(streak_tracking, ZeroStreakRow(call[p].studentId))
                  ELSE /\ call' = [call EXCEPT ![p].pc = "us_upsert", ![p].logins = logins,
                                                 ![p].streakToday = now]
                       /\ UNCHANGED streak_tracking
    /\ UNCHANGED <<now, accounts, login_history, seen, ach, calc, auth>>

\* the select of the login dates returns (lines 43-55)
updateStreakSelect(p) ==
    /\ call[p].pc = "us_select"
    /\ \E ok \in BOOLEAN :
         IF ~ok
         THEN call' = [call EXCEPT ![p] = updateStreakReturn(call[p], StoreUnavailable)]
         ELSE LET logins == SelectLoginDates(call[p].studentId)
              IN  IF Len(logins) = 0
                  THEN call' = [call EXCEPT ![p] = updateStreakReturn(call[p], NoError)]
                  ELSE call' = [call EXCEPT ![p].pc = "us_upsert", ![p].logins = logins,
                                            ![p].streakToday = now]
    /\ UNCHANGED <<now, accounts, login_history, streak_tracking, seen, ach, calc, auth>>

\* the upsert into streak_tracking returns (lines 56-114)
updateStreakUpsert(p) ==
    /\ call[p].pc = "us_upsert"
    /\ \E ok \in BOOLEAN :
         IF ok
         THEN /\ streak_tracking' =
                   UpsertStreak(streak_tracking,
                       StreakPayload(call[p].studentId, call[p].logins, call[p].streakToday))
              /\ call' = [call EXCEPT ![p] = updateStreakReturn(call[p], NoError)]
         ELSE /\ call' = [call EXCEPT ![p] = updateStreakReturn(call[p], StoreUnavailable)]
              /\ UNCHANGED streak_tracking
    /\ UNCHANGED <<now, accounts, login_history, seen, ach, calc, auth>>

----------------------------------------------------------------------------
(* getStreakData *)

\* getStreakData returns {streakData: data, error: e}; getStreakStats, when it
\* made the call, throws the error or goes on to getLoginCalendar(studentId)
\* and sends its select (lines 192-196, 165-174)
getStreakDataReturn(c, data, e) ==
    IF c.op = "getStreakStats" /\ e = NoError
    THEN [c EXCEPT !.pc = "lc_select", !.streakData = data,
                   !.startDate = now - CalendarDays]
    ELSE [c EXCEPT !.pc = "done", !.streakData = data, !.error = e]

\* getStreakData(studentId) up to its first await (lines 120-126)
getStreakDataCall(p, s) ==
    /\ accounts[s] = "student"
    /\ Begin(p, s, [NoCall EXCEPT !.pc = "gs_select", !.op = "getStreakData", !.studentId = s])
    /\ UNCHANGED <<now, accounts, login_history, streak_tracking, ach, calc, auth>>

\* the select ... .single() returns (lines 122-133, 156-159); no row is error
\* PGRST116 with data null, which line 128 lets through
getStreakDataSelect(p) ==
    /\ call[p].pc = "gs_select"
    /\ \E ok \in BOOLEAN :
         IF ~ok
         THEN call' = [call EXCEPT ![p] = getStreakDataReturn(call[p], {}, StoreUnavailable)]
         ELSE LET data == StreakRows(call[p].studentId)
              IN  IF data = {}
                  THEN call' = [call EXCEPT ![p].pc = "gs_insert"]
                  ELSE call' = [call EXCEPT ![p] = getStreakDataReturn(call[p], data, NoError)]
    /\ UNCHANGED <<now, accounts, login_history, streak_tracking, seen, ach, calc, auth>>

\* the insert of the zero row returns (lines 134-159)
getStreakDataInsert(p) ==
    /\ call[p].pc = "gs_insert"
    /\ \E ok \in BOOLEAN :
         LET s == call[p].studentId
         IN  IF ~ok
             THEN /\ call' = [call EXCEPT ![p] = getStreakDataReturn(call[p], {}, StoreUnavailable)]
                  /\ UNCHANGED streak_tracking
             ELSE IF StreakRows(s) # {}
             THEN /\ call' = [call EXCEPT ![p] = getStreakDataReturn(call[p], {}, UniqueViolation)]
                  /\ UNCHANGED streak_tracking
             ELSE /\ streak_tracking' = streak_tracking \cup {ZeroStreakRow(s)}
                  /\ call' = [call EXCEPT ![p] =
                                  getStreakDataReturn(call[p], {ZeroStreakRow(s)}, NoError)]
    /\ UNCHANGED <<now, accounts, login_history, seen, ach, calc, auth>>

----------------------------------------------------------------------------
(* getLoginCalendar, getStreakStats, getLoginConsistency: the readers of
   login_history *)

RECURSIVE Reverse(_)
Reverse(s) == IF s = <<>> THEN <<>> ELSE Reverse(Tail(s)) \o <<Head(s)>>

\* .select('login_date').eq('student_id', s).gte('login_date', startDate)
\*  .order('login_date', {ascending: true})
SelectLoginDatesSince(s, startDate) ==
    Reverse(OrderDesc({r \in LoginRows(s) : r.login_date >= startDate}))

\* getLoginCalendar(studentId) up to its await (lines 165-174)
getLoginCalendarCall(p, s) ==
    /\ accounts[s] = "student"
    /\ Begin(p, s, [NoCall EXCEPT !.pc = "lc_select", !.op = "getLoginCalendar",
                                  !.studentId = s, !.startDate = now - CalendarDays])
    /\ UNCHANGED <<now, accounts, login_history, streak_tracking, ach, calc, auth>>

\* the select of the calendar returns (lines 169-184), to the caller or to
\* getStreakStats, which returns with it (lines 195-210)
getLoginCalendarSelect(p) ==
    /\ call[p].pc = "lc_select"
    /\ \E ok \in BOOLEAN :
         IF ok
         THEN call' = [call EXCEPT ![p].pc = "done", ![p].startDate = NullDate,
                           ![p].loginDates =
                               SelectLoginDatesSince(call[p].studentId, call[p].startDate)]
         ELSE call' = [call EXCEPT ![p].pc = "done", ![p].startDate = NullDate,
                           ![p].streakData = {}, ![p].error = StoreUnavailable]
    /\ UNCHANGED <<now, accounts, login_history, streak_tracking, seen, ach, calc, auth>>

\* getStreakStats(studentId) up to its first await: the select of getStreakData
\* (lines 190-192, 120-126)
getStreakStatsCall(p, s) ==
    /\ accounts[s] = "student"
    /\ Begin(p, s, [NoCall EXCEPT !.pc = "gs_select", !.op = "getStreakStats", !.studentId = s])
    /\ UNCHANGED <<now, accounts, login_history, streak_tracking, ach, calc, auth>>

\* getLoginConsistency(studentId) up to its await (moodTracker.js lines 190-196)
getLoginConsistencyCall(p, s) ==
    /\ accounts[s] = "student"
    /\ Begin(p, s, [NoCall EXCEPT !.pc = "cs_select", !.op = "getLoginConsistency",
                                  !.studentId = s])
    /\ UNCHANGED <<now, accounts, login_history, streak_tracking, ach, calc, auth>>

\* its select returns (moodTracker.js lines 192-205)
getLoginConsistencySelect(p) ==
    /\ call[p].pc = "cs_select"
    /\ \E ok \in BOOLEAN :
         IF ok
         THEN call' = [call EXCEPT ![p].pc = "done",
                           ![p].loginDates = SelectLoginDates(call[p].studentId)]
         ELSE call' = [call EXCEPT ![p].pc = "done", ![p].error = StoreUnavailable]
    /\ UNCHANGED <<now, accounts, login_history, streak_tracking, seen, ach, calc, auth>>

----------------------------------------------------------------------------
(* needsStreakMaintenance *)

\* needsStreakMaintenance(studentId) up to its first await (lines 216-227)
needsStreakMaintenanceCall(p, s) ==
    /\ accounts[s] = "student"
    /\ Begin(p, s, [NoCall EXCEPT !.pc = "nm_today", !.op = "needsStreakMaintenance",
                                  !.studentId = s, !.today = now, !.yesterday = now - 1])
    /\ UNCHANGED <<now, accounts, login_history, streak_tracking, ach, calc, auth>>

\* the query for today's login returns; only data is read, a failed query leaves
\* it null (lines 222-227)
needsStreakMaintenanceToday(p) ==
    /\ call[p].pc = "nm_today"
    /\ \E ok \in BOOLEAN :
         call' = [call EXCEPT ![p].pc = "nm_yesterday", ![p].queryFailed = ~ok,
                              ![p].todayLogin = ok /\ SingleLogin(call[p].studentId, call[p].today)]
    /\ UNCHANGED <<now, accounts, login_history, streak_tracking, seen, ach, calc, auth>>

\* the query for yesterday's login returns, and the call with it (lines 230-239)
needsStreakMaintenanceYesterday(p) ==
    /\ call[p].pc = "nm_yesterday"
    /\ \E ok \in BOOLEAN :
         LET yesterdayLogin == ok /\ SingleLogin(call[p].studentId, call[p].yesterday)
         IN  call' = [call EXCEPT ![p].pc = "done", ![p].error = NoError,
                              ![p].todayLogin = FALSE,
                              ![p].queryFailed = call[p].queryFailed \/ ~ok,
                              ![p].needsMaintenance = yesterdayLogin /\ ~call[p].todayLogin]
    /\ UNCHANGED <<now, accounts, login_history, streak_tracking, seen, ach, calc, auth>>

----------------------------------------------------------------------------
(* signUpStudent *)

\* signUpStudent({...}) up to its first await (lines 7-13)
signUpStudentCall(p, s) ==
    /\ accounts[s] = "none"
    /\ Begin(p, s, [NoCall EXCEPT !.pc = "su_auth", !.op = "signUpStudent", !.studentId = s])
    /\ UNCHANGED <<now, accounts, login_history, streak_tracking, ach, calc, auth>>

\* supabase.auth.signUp returns (lines 10-17)
signUpStudentAuth(p) ==
    /\ call[p].pc = "su_auth"
    /\ \E ok \in BOOLEAN :
         LET s == call[p].studentId
         IN  IF ~ok
             THEN /\ call' = [call EXCEPT ![p].pc = "done", ![p].error = StoreUnavailable]
                  /\ UNCHANGED accounts
             ELSE IF accounts[s] # "none"
             THEN /\ call' = [call EXCEPT ![p].pc = "done", ![p].error = AlreadyRegistered]
                  /\ UNCHANGED accounts
             ELSE /\ accounts' = [accounts EXCEPT ![s] = "auth"]
                  /\ call' = [call EXCEPT ![p].pc = "su_profile"]
    /\ UNCHANGED <<now, login_history, streak_tracking, seen, ach, calc, auth>>

\* the insert into profiles returns (lines 20-29)
signUpStudentProfile(p) ==
    /\ call[p].pc = "su_profile"
    /\ \E ok \in BOOLEAN :
         IF ok
         THEN call' = [call EXCEPT ![p].pc = "su_student"]
         ELSE call' = [call EXCEPT ![p].pc = "done", ![p].error = StoreUnavailable]
    /\ UNCHANGED <<now, accounts, login_history, streak_tracking, seen, ach, calc, auth>>

\* the insert into student_profiles returns (lines 32-42): the student can sign in
signUpStudentStudentProfile(p) ==
    /\ call[p].pc = "su_student"
    /\ \E ok \in BOOLEAN :
         IF ok
         THEN /\ accounts' = [accounts EXCEPT ![call[p].studentId] = "student"]
              /\ call' = [call EXCEPT ![p].pc = "su_streak"]
         ELSE /\ call' = [call EXCEPT ![p].pc = "done", ![p].error = StoreUnavailable]
              /\ UNCHANGED accounts
    /\ UNCHANGED <<now, login_history, streak_tracking, seen, ach, calc, auth>>

\* the insert into streak_tracking returns (lines 45-59)
signUpStudentStreak(p) ==
    /\ call[p].pc = "su_streak"
    /\ \E ok \in BOOLEAN :
         LET s == call[p].studentId
         IN  IF ~ok
             THEN /\ call' = [call EXCEPT ![p].pc = "done", ![p].error = StoreUnavailable]
                  /\ UNCHANGED streak_tracking
             ELSE IF StreakRows(s) # {}
             THEN /\ call' = [call EXCEPT ![p].pc = "done", ![p].error = UniqueViolation]
                  /\ UNCHANGED streak_tracking
             ELSE /\ streak_tracking' = streak_tracking \cup {ZeroStreakRow(s)}
                  /\ call' = [call EXCEPT ![p].pc = "done"]
    /\ UNCHANGED <<now, accounts, login_history, seen, ach, calc, auth>>

----------------------------------------------------------------------------
(* getStreakAchievements *)

milestones == <<7, 14, 30, 60, 90, 180, 365>>

getAchievementTitle(days) ==
    CASE days = 7 -> "Week Warrior"
      [] days = 14 -> "Two-Week Thunder"
      [] days = 30 -> "Month Master"
      [] days = 60 -> "60-Day Champion"
      [] days = 90 -> "Quarter Conqueror"
      [] days = 180 -> "Half-Year Hero"
      [] days = 365 -> "Year-Long Legend"
      [] OTHER -> "N-Day Streak"

\* the comparison strict: a milestone counts only once it is passed
RECURSIVE currentAchievementsStrict(_, _)
currentAchievementsStrict(ms, currentStreak) ==
    IF ms = <<>> THEN <<>>
    ELSE (IF currentStreak > Head(ms)
          THEN <<[milestone |-> Head(ms), title |-> getAchievementTitle(Head(ms)),
                  achieved |-> TRUE]>>
          ELSE <<>>) \o currentAchievementsStrict(Tail(ms), currentStreak)

\* milestones.forEach(milestone => { if (currentStreak >= milestone) push })
RECURSIVE currentAchievements(_, _)
currentAchievements(ms, currentStreak) ==
    IF ms = <<>> THEN <<>>
    ELSE (IF currentStreak >= Head(ms)
          THEN <<[milestone |-> Head(ms), title |-> getAchievementTitle(Head(ms)),
                  achieved |-> TRUE]>>
          ELSE <<>>) \o currentAchievements(Tail(ms), currentStreak)

\* the comparison not strict: a milestone just reached is still the next one
RECURSIVE findAtLeast(_, _)
findAtLeast(ms, currentStreak) ==
    IF ms = <<>> THEN <<>>
    ELSE IF Head(ms) >= currentStreak THEN <<Head(ms)>>
    ELSE findAtLeast(Tail(ms), currentStreak)

\* milestones.find(m => m > currentStreak): <<m>> for the first one, <<>> for none
RECURSIVE find(_, _)
find(ms, currentStreak) ==
    IF ms = <<>> THEN <<>>
    ELSE IF Head(ms) > currentStreak THEN <<Head(ms)>>
    ELSE find(Tail(ms), currentStreak)

\* upcoming: <<>> is null
upcomingAchievement(currentStreak) ==
    LET nextMilestone == find(milestones, currentStreak)
    IN  IF nextMilestone # <<>>
        THEN <<[milestone |-> nextMilestone[1], title |-> getAchievementTitle(nextMilestone[1]),
                daysRemaining |-> nextMilestone[1] - currentStreak]>>
        ELSE <<>>

NoAchievements == [called |-> FALSE, currentStreak |-> 0, current |-> <<>>, upcoming |-> <<>>]

\* getStreakAchievements(currentStreak, longestStreak) (lines 248-278)
getStreakAchievements(currentStreak) ==
    /\ ach' = [called |-> TRUE, currentStreak |-> currentStreak,
               current |-> currentAchievements(milestones, currentStreak),
               upcoming |-> upcomingAchievement(currentStreak)]
    /\ UNCHANGED <<now, accounts, login_history, streak_tracking, call, seen, calc, auth>>

----------------------------------------------------------------------------
(* The streak computation of updateStreak as a function of the list selected *)

NoCalc ==
    [called |-> FALSE, logins |-> <<>>, today |-> NullDate, payload |-> ZeroStreakRow("s1")]

\* lines 55-107 of updateStreak on a non-empty list `logins` of login dates, in
\* whatever order and with whatever repeats, read on day `today`: the row it
\* sends to the upsert
updateStreakOn(logins, today) ==
    /\ calc' = [called |-> TRUE, logins |-> logins, today |-> today,
                payload |-> StreakPayload("s1", logins, today)]
    /\ UNCHANGED <<now, accounts, login_history, streak_tracking, call, seen, ach, auth>>

----------------------------------------------------------------------------
(* AuthProvider (src/contexts/AuthContext.jsx) *)

\* the provider before its effect has run: the useState initial values, no
\* session, no task started
NoAuth ==
    [user |-> NoUser, profile |-> NoUser, roleProfile |-> NoUser,
     loading |-> TRUE, error |-> NoError,
     session |-> NoUser,                        \* the user of supabase's session
     pc |-> [t \in AuthTasks |-> "idle"],        \* where each task stands
     authUser |-> [t \in AuthTasks |-> NoUser],  \* the argument of loadUserProfile
     userData |-> [t \in AuthTasks |-> NoUser]]  \* getCurrentUserProfile: user

\* loadUserProfile(authUser) of task t up to its first await: getCurrentUserProfile
\* is called and calls supabase.auth.getUser() (lines 294-297, auth.js line 165)
loadUserProfileCall(a, t, authUser) ==
    [a EXCEPT !.pc[t] = "lp_getUser", !.authUser[t] = authUser]

\* initializeAuth without its finally: loading is left as it is
loadUserProfileReturnNoFinally(a, t) ==
    [a EXCEPT !.pc[t] = "done", !.authUser[t] = NoUser, !.userData[t] = NoUser]

\* loadUserProfile of task t returns; initializeAuth goes through its finally
\* (lines 272-274), the handler of onAuthStateChange just ends
loadUserProfileReturn(a, t) ==
    [a EXCEPT !.pc[t] = "done", !.authUser[t] = NoUser, !.userData[t] = NoUser,
              !.loading = IF t = "initializeAuth" THEN FALSE ELSE @]

\* supabase.auth.getSession() returns to initializeAuth (lines 264-275); a
\* failure comes back as no session
initializeAuthSession ==
    /\ auth.pc["initializeAuth"] = "ia_session"
    /\ \E ok \in BOOLEAN :
         LET sessionUser == IF ok THEN auth.session ELSE NoUser
         IN  IF sessionUser # NoUser
             THEN auth' = loadUserProfileCall(auth, "initializeAuth", sessionUser)
             ELSE auth' = [auth EXCEPT !.pc["initializeAuth"] = "done", !.loading = FALSE]
    /\ UNCHANGED <<now, accounts, login_history, streak_tracking, call, seen, ach, calc>>

\* getCurrentUserProfile catches the error e of one of its calls and returns
\* it; loadUserProfile throws it, stores its message and returns (auth.js lines
\* 200-202, AuthContext.jsx lines 299, 309-311)
getCurrentUserProfileError(a, t, e) ==
    [loadUserProfileReturn(a, t) EXCEPT !.error = e]

\* supabase.auth.getUser() returns to getCurrentUserProfile of task t (auth.js
\* lines 165-173): without a session there is no user; with one, the select of
\* the user's row of profiles is sent
getCurrentUserProfileUser(t) ==
    /\ auth.pc[t] = "lp_getUser"
    /\ \E ok \in BOOLEAN :
         IF ~ok
         THEN auth' = getCurrentUserProfileError(auth, t, StoreUnavailable)
         ELSE IF auth.session = NoUser
         THEN auth' = getCurrentUserProfileError(auth, t, NoUserFound)
         ELSE auth' = [auth EXCEPT !.pc[t] = "lp_profile", !.userData[t] = auth.session]
    /\ UNCHANGED <<now, accounts, login_history, streak_tracking, call, seen, ach, calc>>

\* the select of profiles returns (auth.js lines 169-196): the row has the role
\* the account was created with, and the select of the role's own profile
\* table is sent
getCurrentUserProfileProfile(t) ==
    /\ auth.pc[t] = "lp_profile"
    /\ \E ok \in BOOLEAN :
         IF ~ok
         THEN auth' = getCurrentUserProfileError(auth, t, StoreUnavailable)
         ELSE IF accounts[auth.userData[t]] \notin Roles
         THEN auth' = getCurrentUserProfileError(auth, t, NoRow)
         ELSE auth' = [auth EXCEPT !.pc[t] = "lp_role"]
    /\ UNCHANGED <<now, accounts, login_history, streak_tracking, call, seen, ach, calc>>

\* the select of student_profiles or counselor_profiles returns and with it
\* getCurrentUserProfile (auth.js lines 179-202, AuthContext.jsx lines 296-311):
\* an error is caught and stored; otherwise the three setters run, in one
\* batch, and for a student recordLogin(authUser.id) is called and sends its
\* upsert
loadUserProfileProfile(t) ==
    /\ auth.pc[t] = "lp_role"
    /\ \E ok \in BOOLEAN :
         LET userData == auth.userData[t]
             role == accounts[userData]
             loaded == [auth EXCEPT !.user = userData, !.profile = role,
                                    !.roleProfile = userData]
         IN  IF ~ok
             THEN /\ auth' = getCurrentUserProfileError(auth, t, StoreUnavailable)
                  /\ UNCHANGED <<call, seen>>
             ELSE IF role = "student"
             THEN /\ auth' = [loaded EXCEPT !.pc[t] = "lp_login"]
                  /\ Begin(t, auth.authUser[t],
                           [NoCall EXCEPT !.pc = "rl_upsert", !.op = "recordLogin",
                                          !.studentId = auth.authUser[t], !.today = now])
             ELSE /\ auth' = loadUserProfileReturn(loaded, t)
                  /\ UNCHANGED <<call, seen>>
    /\ UNCHANGED <<now, accounts, login_history, streak_tracking, ach, calc>>

\* recordLogin has returned to loadUserProfile of task t, which does not look
\* at the value and returns (lines 306-308)
loadUserProfileLogin(t) ==
    /\ auth.pc[t] = "lp_login"
    /\ call[t].pc = "done"
    /\ auth' = loadUserProfileReturn(auth, t)
    /\ UNCHANGED <<now, accounts, login_history, streak_tracking, call, seen, ach, calc>>

\* the user signs in: supabase holds the session and delivers SIGNED_IN to the
\* listener, which calls loadUserProfile(session.user) (lines 281-284)
onAuthStateChangeSignedIn(u) ==
    /\ auth.pc["onAuthStateChange"] \in {"idle", "done"}
    /\ accounts[u] \in Roles
    /\ auth' = loadUserProfileCall([auth EXCEPT !.session = u], "onAuthStateChange", u)
    /\ UNCHANGED <<now, accounts, login_history, streak_tracking, call, seen, ach, calc>>

\* the user signs out: the session is gone and the listener gets SIGNED_OUT
\* (lines 284-288)
onAuthStateChangeSignedOut ==
    /\ auth.session # NoUser
    /\ auth' = [auth EXCEPT !.session = NoUser, !.user = NoUser, !.profile = NoUser,
                            !.roleProfile = NoUser]
    /\ UNCHANGED <<now, accounts, login_history, streak_tracking, call, seen, ach, calc>>

\* ProtectedRoute without its test of loading
ProtectedRouteNoSpinner(allowedRoles) ==
    IF auth.user = NoUser THEN "/login"
    ELSE IF allowedRoles # {} /\ auth.profile # NoUser /\ auth.profile \notin allowedRoles
    THEN (IF auth.profile = "student" THEN "/student/dashboard"
          ELSE IF auth.profile = "counselor" THEN "/counselor/dashboard"
          ELSE "/")
    ELSE "children"

\* what <ProtectedRoute allowedRoles={...}> renders from the state of the
\* provider (ProtectedRoute.jsx lines 41-69): the spinner, a <Navigate> to a
\* path, or its children
ProtectedRoute(allowedRoles) ==
    IF auth.loading THEN "LoadingSpinner"
    ELSE IF auth.user = NoUser THEN "/login"
    ELSE IF allowedRoles # {} /\ auth.profile # NoUser /\ auth.profile \notin allowedRoles
    THEN (IF auth.profile = "student" THEN "/student/dashboard"
          ELSE IF auth.profile = "counselor" THEN "/counselor/dashboard"
          ELSE "/")
    ELSE "children"

----------------------------------------------------------------------------
(* Specifications *)

Init ==
    /\ now = 0
    /\ accounts = [s \in Students |-> "none"]
    /\ login_history = {}
    /\ streak_tracking = {}
    /\ call = [p \in Clients |-> NoCall]
    /\ seen = NoSeen
    /\ ach = NoAchievements
    /\ calc = NoCalc
    /\ auth = NoAuth

Step(p) ==
    \/ \E s \in Students : signUpStudentCall(p, s)
    \/ signUpStudentAuth(p)
    \/ signUpStudentProfile(p)
    \/ signUpStudentStudentProfile(p)
    \/ signUpStudentStreak(p)
    \/ \E s \in Students : recordLoginCall(p, s)
    \/ recordLoginUpsert(p)
    \/ updateStreakSelect(p)
    \/ updateStreakUpsert(p)
    \/ \E s \in Students : getStreakDataCall(p, s)
    \/ getStreakDataSelect(p)
    \/ getStreakDataInsert(p)

\* two clients (tabs) whose store steps interleave, and the clock
Next == Tick \/ \E p \in Procs : Step(p)

Spec == Init /\ [][Next]_vars

\* one caller making any of the calls: every call runs to completion before
\* the next one starts
NextSeq ==
    \/ Tick
    \/ Step(Caller)
    \/ \E s \in Students : needsStreakMaintenanceCall(Caller, s)
    \/ needsStreakMaintenanceToday(Caller)
    \/ needsStreakMaintenanceYesterday(Caller)
    \/ \E s \in Students : updateStreakCall(Caller, s)
    \/ \E s \in Students : getLoginCalendarCall(Caller, s)
    \/ getLoginCalendarSelect(Caller)
    \/ \E s \in Students : getStreakStatsCall(Caller, s)
    \/ \E s \in Students : getLoginConsistencyCall(Caller, s)
    \/ getLoginConsistencySelect(Caller)

SpecSeq == Init /\ [][NextSeq]_vars

\* updateStreak on its own, from every login history of one student up to MaxDate
InitRecompute ==
    /\ now \in 0..MaxDate
    /\ accounts = [s \in Students |-> "student"]
    /\ \E dates \in SUBSET (0..MaxDate) :
         /\ \A d \in dates : d <= now
         /\ login_history = {[student_id |-> "s1", login_date |-> d, id |-> 1] : d \in dates}
    /\ streak_tracking = {}
    /\ call = [p \in Clients |-> NoCall]
    /\ seen = NoSeen
    /\ ach = NoAchievements
    /\ calc = NoCalc
    /\ auth = NoAuth

NextRecompute ==
    \/ updateStreakCall(Caller, "s1")
    \/ updateStreakSelect(Caller)
    \/ updateStreakUpsert(Caller)

SpecRecompute == InitRecompute /\ [][NextRecompute]_vars

\* getStreakAchievements on every streak up to MaxStreak
NextAchievements == \E currentStreak \in 0..MaxStreak : getStreakAchievements(currentStreak)

SpecAchievements == Init /\ [][NextAchievements]_vars

\* the non-empty lists of at most MaxListLen login dates, none after `today`
LoginLists(today) == UNION {[1..n -> 0..today] : n \in 1..MaxListLen}

\* the streak computation on every such list
NextLists ==
    \E today \in 0..MaxDay : \E logins \in LoginLists(today) : updateStreakOn(logins, today)

SpecLists == Init /\ [][NextLists]_vars

\* a tab opened by a user who has signed up as a student (with the zero
\* summary sign-up leaves) or as a counselor, with or without a session from an
\* earlier visit: the effect of AuthProvider has run, initializeAuth waits for
\* getSession and the listener is subscribed (lines 262-291)
InitAuth ==
    /\ now = 0
    /\ \E role \in Roles :
         /\ accounts = [s \in Students |-> role]
         /\ streak_tracking =
              IF role = "student" THEN {ZeroStreakRow(s) : s \in Students} ELSE {}
    /\ login_history = {}
    /\ call = [p \in Clients |-> NoCall]
    /\ seen = NoSeen
    /\ ach = NoAchievements
    /\ calc = NoCalc
    /\ \E u \in Students \cup {NoUser} :
         auth = [NoAuth EXCEPT !.session = u, !.pc["initializeAuth"] = "ia_session"]

\* the clock while the tab is open
TickAuth == now < MaxAuthDay /\ Tick

\* the tasks of the provider, the store steps of their recordLogin calls, the
\* user signing in and out, and the clock
NextAuth ==
    \/ TickAuth
    \/ initializeAuthSession
    \/ \E t \in AuthTasks :
         \/ getCurrentUserProfileUser(t)
         \/ getCurrentUserProfileProfile(t)
         \/ loadUserProfileProfile(t)
         \/ loadUserProfileLogin(t)
         \/ recordLoginUpsert(t)
         \/ updateStreakSelect(t)
         \/ updateStreakUpsert(t)
    \/ \E u \in Students : onAuthStateChangeSignedIn(u)
    \/ onAuthStateChangeSignedOut

SpecAuth == InitAuth /\ [][NextAuth]_vars

\* every call awaited by a task of the provider returns in the end, with data
\* or with an error, and the task then runs on; the user and the clock are
\* under no such obligation
FairAuth ==
    /\ WF_vars(initializeAuthSession)
    /\ \A t \in AuthTasks :
         /\ WF_vars(getCurrentUserProfileUser(t))
         /\ WF_vars(getCurrentUserProfileProfile(t))
         /\ WF_vars(loadUserProfileProfile(t))
         /\ WF_vars(recordLoginUpsert(t))
         /\ WF_vars(updateStreakSelect(t))
         /\ WF_vars(updateStreakUpsert(t))
         /\ WF_vars(loadUserProfileLogin(t))

SpecAuthFair == SpecAuth /\ FairAuth

----------------------------------------------------------------------------
(* What the streak metrics are, said over the set of login dates *)

MaxOf(S) == CHOOSE d \in S : \A e \in S : e <= d

\* length of the run of consecutive days in S that ends at d (d in S)
RunEndingAt(S, d) ==
    CHOOSE k \in 1..Cardinality(S) :
        /\ \A j \in 0..(k - 1) : (d - j) \in S
        /\ (d - k) \notin S

\* length of the longest run of consecutive days anywhere in S (S non-empty)
LongestRun(S) ==
    CHOOSE k \in 1..Cardinality(S) :
        /\ \E d \in S : RunEndingAt(S, d) = k
        /\ \A d \in S : RunEndingAt(S, d) <= k

\* the current streak of S at `today`, for today on or after the newest login
CurrentRun(S, today) ==
    IF today - MaxOf(S) <= 1 THEN RunEndingAt(S, MaxOf(S)) ELSE 0

\* the summary row of student s for the login dates S at `today`
SummaryOf(s, S, today) ==
    [student_id |-> s, current_streak |-> CurrentRun(S, today),
     longest_streak |-> LongestRun(S), last_login_date |-> today,
     total_login_days |-> Cardinality(S)]

----------------------------------------------------------------------------
(* Claims *)

\* C1: every stored summary row has longest_streak >= current_streak and
\* total_login_days >= longest_streak, whoever wrote it (updateStreak,
\* getStreakData's lazy insert, sign-up).
C1_SummaryOrdered ==
    \A r \in streak_tracking :
        /\ r.longest_streak >= r.current_streak
        /\ r.total_login_days >= r.longest_streak

\* a row updateStreak wrote in which all three counters differ
C1_Witness ==
    \E r \in streak_tracking :
        /\ r.current_streak >= 1
        /\ r.longest_streak > r.current_streak
        /\ r.total_login_days > r.longest_streak

\* C2: the current_streak updateStreak writes is the length of the run of
\* consecutive days ending at the newest login date when today is that date or
\* the day after, and 0 when today is later; {D-3,D-2,D-1} at D gives 3 and
\* {D-5,D-4,D-3} at D gives 0.
C2_CurrentStreakWritten ==
    \A r \in streak_tracking :
        LET S == LoginDatesOf(r.student_id)
            gap == now - MaxOf(S)
        IN  /\ gap \in {0, 1} => r.current_streak = RunEndingAt(S, MaxOf(S))
            /\ gap > 1 => r.current_streak = 0
            /\ S = {now - 3, now - 2, now - 1} => r.current_streak = 3
            /\ S = {now - 5, now - 4, now - 3} => r.current_streak = 0

\* the grace-day example: logins on D-3, D-2, D-1, summary written on D
C2_Witness ==
    \E r \in streak_tracking :
        /\ LoginDatesOf(r.student_id) = {now - 3, now - 2, now - 1}
        /\ r.current_streak = 3

\* C3: the longest_streak updateStreak writes is the length of the longest run
\* of consecutive days anywhere in the login dates, lapsed or not;
\* {D-10,D-9,D-8,D-3,D-2,D-1} at D gives 3 and 3, {D-5,D-4,D-3} at D gives 0 and 3.
C3_LongestStreakWritten ==
    \A r \in streak_tracking :
        LET S == LoginDatesOf(r.student_id)
        IN  /\ r.longest_streak = LongestRun(S)
            /\ S = {now - 10, now - 9, now - 8, now - 3, now - 2, now - 1}
                 => r.current_streak = 3 /\ r.longest_streak = 3
            /\ S = {now - 5, now - 4, now - 3}
                 => r.current_streak = 0 /\ r.longest_streak = 3

\* the example of the two tied runs
C3_Witness ==
    \E r \in streak_tracking :
        /\ LoginDatesOf(r.student_id) = {now - 10, now - 9, now - 8, now - 3, now - 2, now - 1}
        /\ r.longest_streak = 3

\* a recordLogin of the sequential caller has returned, its store steps all
\* succeeded and it read the same day d at line 10 and at line 55: recordLogin(s, d)
ReturnedCleanOn(c) ==
    /\ c.pc = "done" /\ c.op = "recordLogin"
    /\ Clean(c)
    /\ c.streakToday = c.today

\* the call before it was such a recordLogin(s, d) too
SecondOfTwo ==
    /\ ReturnedCleanOn(call[Caller])
    /\ seen.prev.op = "recordLogin" /\ seen.prev.clean
    /\ seen.prev.studentId = call[Caller].studentId
    /\ seen.prev.today = call[Caller].today
    /\ seen.prev.streakToday = call[Caller].today

\* C4: recordLogin is idempotent per day: the second of two successive
\* recordLogin(s, d) whose store steps succeed returns no error and leaves the
\* login rows (one for d) and the summary row exactly as the first left them.
C4_RecordLoginIdempotent ==
    SecondOfTwo =>
        LET c == call[Caller]
            s == c.studentId
        IN  /\ c.error = NoError /\ c.streakError = NoError
            /\ LoginRows(s) = seen.logins
            /\ StreakRows(s) = seen.streak
            /\ Cardinality({r \in LoginRows(s) : r.login_date = c.today}) = 1
            /\ \A r \in StreakRows(s) : r.total_login_days = Cardinality(LoginDatesOf(s))

\* the second call has returned, on a day that continues a streak
C4_Witness ==
    /\ SecondOfTwo
    /\ \E r \in StreakRows(call[Caller].studentId) :
         r.current_streak = 2 /\ r.last_login_date = call[Caller].today

\* C5: whenever the login upsert, the login-date select or the summary upsert
\* failed during recordLogin, the value recordLogin returns carries an error.
C5_RecordLoginSurfacesFailure ==
    LET c == call[Caller]
    IN  (c.pc = "done" /\ c.op = "recordLogin" /\ ~Clean(c)) => c.error # NoError

\* C6: after recordLogin(s, today) returns, either it returned no error and the
\* login row of today exists and the summary row is the one of the login
\* dates, or it returned an error and the student's login rows and summary row
\* are those from before the call.
C6_NoPartialState ==
    LET c == call[Caller]
        s == c.studentId
    IN  (c.pc = "done" /\ c.op = "recordLogin") =>
            \/ /\ c.error = NoError
               /\ c.today \in LoginDatesOf(s)
               /\ StreakRows(s) = {SummaryOf(s, LoginDatesOf(s), c.streakToday)}
            \/ /\ c.error # NoError
               /\ LoginRows(s) = seen.logins
               /\ StreakRows(s) = seen.streak

\* C7: once two recordLogin calls of the same student, whose store steps all
\* succeeded, have both returned, there is one login row per date and the
\* summary row is the one of the final login dates, at the today of one of
\* the two writers.
C7_ConcurrentConverge ==
    (/\ \A p \in Procs : /\ call[p].pc = "done" /\ call[p].op = "recordLogin"
                         /\ call[p].error = NoError /\ call[p].streakError = NoError
     /\ call["tab1"].studentId = call["tab2"].studentId) =>
        LET s == call["tab1"].studentId
        IN  /\ \A d \in LoginDatesOf(s) :
                 Cardinality({r \in LoginRows(s) : r.login_date = d}) = 1
            /\ \E p \in Procs :
                 StreakRows(s) = {SummaryOf(s, LoginDatesOf(s), call[p].streakToday)}

\* C8: with no call in flight after a recordLogin of the sequential caller, and
\* at least one login row, the summary row is the one of the login dates at
\* the today of that recordLogin.
C8_SummaryIsCache ==
    LET c == call[Caller]
        s == c.studentId
    IN  (c.pc = "done" /\ c.op = "recordLogin" /\ LoginRows(s) # {}) =>
            StreakRows(s) = {SummaryOf(s, LoginDatesOf(s), c.today)}

\* C9: needsStreakMaintenance returns needsMaintenance = true exactly when
\* there is a login row for yesterday and none for today.
C9_NeedsMaintenanceIff ==
    LET c == call[Caller]
        S == LoginDatesOf(c.studentId)
    IN  (c.pc = "done" /\ c.op = "needsStreakMaintenance") =>
            (c.needsMaintenance <=> (c.yesterday \in S /\ c.today \notin S))

\* C10: getStreakAchievements returns as current exactly the milestones of
\* 7, 14, 30, 60, 90, 180, 365 that are <= currentStreak, ascending, each
\* achieved; none below 7, all seven from 365 on.
C10_AchievedMilestones ==
    ach.called =>
        LET n == ach.currentStreak
            got == ach.current
        IN  /\ {got[i].milestone : i \in 1..Len(got)}
                 = {m \in {7, 14, 30, 60, 90, 180, 365} : m <= n}
            /\ \A i \in 1..Len(got) : got[i].achieved
            /\ \A i \in 1..(Len(got) - 1) : got[i].milestone < got[i + 1].milestone
            /\ n < 7 => got = <<>>
            /\ n >= 365 => Len(got) = 7

\* currentStreak = 10: achieved = [7]
C10_Witness ==
    /\ ach.called /\ ach.currentStreak = 10
    /\ Len(ach.current) = 1 /\ ach.current[1].milestone = 7

\* C11: getStreakAchievements reports as upcoming the smallest milestone of
\* 7, 14, 30, 60, 90, 180, 365 above currentStreak, with daysRemaining =
\* milestone - currentStreak >= 1, and no upcoming entry exactly from 365 on.
C11_UpcomingMilestone ==
    ach.called =>
        LET n == ach.currentStreak
            above == {m \in {7, 14, 30, 60, 90, 180, 365} : m > n}
        IN  /\ (ach.upcoming = <<>>) <=> (n >= 365)
            /\ ach.upcoming # <<>> =>
                 /\ ach.upcoming[1].milestone \in above
                 /\ \A m \in above : ach.upcoming[1].milestone <= m
                 /\ ach.upcoming[1].daysRemaining = ach.upcoming[1].milestone - n
                 /\ ach.upcoming[1].daysRemaining >= 1
            /\ n = 365 => Len(ach.current) = 7 /\ ach.upcoming = <<>>

\* currentStreak = 10: upcoming = {milestone: 14, daysRemaining: 4}
C11_Witness ==
    /\ ach.called /\ ach.currentStreak = 10
    /\ ach.upcoming # <<>>
    /\ ach.upcoming[1].milestone = 14 /\ ach.upcoming[1].daysRemaining = 4

\* C12: reading the summary of a student who has none stored is never an error:
\* unless the store itself was unavailable, a getStreakData that has returned
\* gave error null with a summary, and exactly one summary row exists for the
\* student afterwards, also when another client created the row between this
\* call's read and its lazy insert.
C12_LazyReadNeverFails ==
    \A p \in Procs :
        (/\ call[p].pc = "done"
         /\ call[p].op = "getStreakData"
         /\ call[p].error # StoreUnavailable)
        => /\ call[p].error = NoError
           /\ call[p].streakData # {}
           /\ Cardinality(StreakRows(call[p].studentId)) = 1

\* C13: login records are append-only: whatever the caller does (sign-up,
\* recordLogin, updateStreak, getStreakData, getLoginCalendar, getStreakStats,
\* needsStreakMaintenance, getLoginConsistency) and however the clock moves,
\* every row of login_history is still there, unchanged, after the step.
C13_LoginsAppendOnly == [][login_history \subseteq login_history']_vars

\* two days' records are stored, and one of the readers has run over them
C13_Witness ==
    /\ Cardinality(LoginDatesOf("s1")) >= 2
    /\ call[Caller].pc = "done"
    /\ call[Caller].op = "getLoginConsistency"
    /\ Len(call[Caller].loginDates) >= 2
    /\ seen.logins = LoginRows("s1")

\* the step is the store write that call step pc of some client was waiting for
WrittenAt(pcs) ==
    \E p \in Clients : call[p].pc \in pcs /\ call'[p] # call[p]

\* C14 as stated: every change to a stored summary is made by updateStreak's
\* upsert or by the lazy zero insert of getStreakData; no other operation,
\* sign-up included, inserts or modifies a summary row.
C14_OnlyEngineWrites ==
    [][streak_tracking' # streak_tracking => WrittenAt({"us_upsert", "gs_insert"})]_vars

\* C14 amended: every change to a stored summary is made by updateStreak's
\* upsert, by the lazy zero insert of getStreakData or by the zero insert of
\* signUpStudent; the two inserts only add the zero row of a student who had no
\* row, and no other step changes streak_tracking.
C14_SummaryWriters ==
    [][streak_tracking' # streak_tracking =>
          \/ WrittenAt({"us_upsert"})
          \/ /\ WrittenAt({"gs_insert", "su_streak"})
             /\ \E s \in Students :
                  /\ StreakRows(s) = {}
                  /\ streak_tracking' = streak_tracking \cup {ZeroStreakRow(s)}]_vars

\* sign-up has created the student's zero summary
C14_Witness ==
    /\ call[Caller].pc = "done"
    /\ call[Caller].op = "signUpStudent"
    /\ call[Caller].error = NoError
    /\ seen.streak = {}
    /\ StreakRows("s1") = {ZeroStreakRow("s1")}

\* the caller's updateStreak has returned for a student with no login record
RecomputedEmpty ==
    /\ call[Caller].pc = "done"
    /\ call[Caller].op = "updateStreak"
    /\ LoginRows(call[Caller].studentId) = {}

\* C16 as stated: when updateStreak runs for a student whose login-date set is
\* empty, it writes a zero summary, so a summary (all counters 0) exists for
\* the student afterwards.
C16_EmptyWritesZero ==
    (RecomputedEmpty /\ Clean(call[Caller])) =>
        \E r \in StreakRows(call[Caller].studentId) :
            r.current_streak = 0 /\ r.longest_streak = 0 /\ r.total_login_days = 0

\* C16 amended: when updateStreak runs for a student whose login-date set is
\* empty, it returns error null without writing: the student's summary is as
\* it was before the call, absent if it was absent.
C16_EmptyWritesNothing ==
    (RecomputedEmpty /\ Clean(call[Caller])) =>
        /\ call[Caller].error = NoError
        /\ StreakRows(call[Caller].studentId) = seen.streak

\* updateStreak returned error null for a student with no login and no summary,
\* and there is still no summary
C16_Witness ==
    /\ RecomputedEmpty
    /\ call[Caller].error = NoError
    /\ seen.streak = {}
    /\ StreakRows("s1") = {}

\* C19: needsStreakMaintenance surfaces store failures and has no side effect:
\* when either of its two queries failed, the call returns a non-null error,
\* and in every case both tables are as they were before the call.
C19_MaintenanceSurfacesFailure ==
    (call[Caller].pc = "done" /\ call[Caller].op = "needsStreakMaintenance") =>
        /\ call[Caller].queryFailed => call[Caller].error # NoError
        /\ LoginRows(call[Caller].studentId) = seen.logins
        /\ StreakRows(call[Caller].studentId) = seen.streak

\* C20: after any recordLogin(s, today) that returned success (error null) the
\* store holds a record for (s, today) and the student's summary has
\* currentStreak >= 1, totalLoginDays >= 1 and lastLoginDate = today.
C20_SuccessLeavesStreak ==
    (/\ call[Caller].pc = "done"
     /\ call[Caller].op = "recordLogin"
     /\ call[Caller].error = NoError)
    => /\ call[Caller].today \in LoginDatesOf(call[Caller].studentId)
       /\ \E r \in StreakRows(call[Caller].studentId) :
              /\ r.current_streak >= 1
              /\ r.total_login_days >= 1
              /\ r.last_login_date = call[Caller].today

\* the login dates the student had before the caller's call
DatesBefore == {r.login_date : r \in seen.logins}

\* before the caller's call the stored summary was what successful recordLogin
\* calls leave: none or the zero row for a student with no login, else the
\* summary of the logins so far as of the day of the last one
LeftBySuccessfulLogins ==
    IF DatesBefore = {}
    THEN seen.streak \subseteq {ZeroStreakRow(call[Caller].studentId)}
    ELSE seen.streak =
             {SummaryOf(call[Caller].studentId, DatesBefore, MaxOf(DatesBefore))}

\* currentStreak the incremental rule gives on day D: unchanged when the
\* previous login was on D, one more when it was on D - 1, else 1
IncrementalStreak(D) ==
    IF DatesBefore = {} THEN 1
    ELSE LET prev == CHOOSE r \in seen.streak : TRUE
         IN  IF MaxOf(DatesBefore) = D THEN prev.current_streak
             ELSE IF MaxOf(DatesBefore) = D - 1 THEN prev.current_streak + 1
             ELSE 1

\* C18: the full recomputation agrees with the incremental state machine: for
\* a student whose summary was left by successful sequential recordLogin
\* calls, a successful recordLogin on day D leaves currentStreak unchanged if
\* the previous login was on D, adds 1 if it was on D - 1 and resets it to 1
\* otherwise; a day boundary without a login changes nothing in the summary.
C18_IncrementalAgrees ==
    [][/\ now' # now => streak_tracking' = streak_tracking
       /\ (/\ call[Caller].pc = "us_upsert"
           /\ call[Caller].op = "recordLogin"
           /\ call'[Caller].pc = "done"
           /\ Clean(call'[Caller])
           /\ call[Caller].today = call[Caller].streakToday
           /\ LeftBySuccessfulLogins)
          => \E r \in streak_tracking' :
                 /\ r.student_id = call[Caller].studentId
                 /\ r.current_streak = IncrementalStreak(call[Caller].today)]_vars

\* the third login in a row has taken currentStreak from 2 to 3
C18_Witness ==
    /\ call[Caller].pc = "done"
    /\ call[Caller].op = "recordLogin"
    /\ Clean(call[Caller])
    /\ call[Caller].today = call[Caller].streakToday
    /\ LeftBySuccessfulLogins
    /\ DatesBefore # {}
    /\ MaxOf(DatesBefore) = call[Caller].today - 1
    /\ \E r \in seen.streak : r.current_streak = 2
    /\ \E r \in StreakRows("s1") : r.current_streak = 3

\* the dates of a list, and a set of dates as a list, newest first
DatesIn(logins) == {logins[i] : i \in 1..Len(logins)}

RECURSIVE DescendingList(_)
DescendingList(S) ==
    IF S = {} THEN <<>> ELSE <<MaxOf(S)>> \o DescendingList(S \ {MaxOf(S)})

\* the row updateStreak computed agrees with the deduplicated, descending list
AgreesWithDistinctDates ==
    LET dd == DescendingList(DatesIn(calc.logins))
        currentStreak == currentStreakOf(dd, calc.today)
    IN  /\ calc.payload.current_streak = currentStreak
        /\ calc.payload.longest_streak = longestStreakOf(dd, currentStreak)
        /\ calc.payload.total_login_days = Cardinality(DatesIn(calc.logins))

C15_LoginFailureReported ==
    \A t \in AuthTasks :
        (/\ auth.pc[t] = "done"
         /\ call[t].pc = "done"
         /\ call[t].op = "recordLogin"
         /\ call[t].error # NoError)
        => auth.error # NoError

\* C21: the stored longestStreak and totalLoginDays are monotone: whatever the
\* two clients' recordLogin calls do, one after the other or with their store
\* steps interleaved, no step takes a student's stored longest_streak or
\* total_login_days below what it was.
C21_CountersMonotone ==
    [][\A r \in streak_tracking : \A q \in streak_tracking' :
           q.student_id = r.student_id =>
               /\ q.longest_streak >= r.longest_streak
               /\ q.total_login_days >= r.total_login_days]_vars

\* C22: sign-out clears the session state for good: while the last auth event
\* handled is SIGNED_OUT (supabase holds no session), user, profile and
\* roleProfile are null; a loadUserProfile that was in flight when the user
\* signed out does not set them afterwards.
C22_SignedOutStaysCleared ==
    auth.session = NoUser =>
        /\ auth.user = NoUser
        /\ auth.profile = NoUser
        /\ auth.roleProfile = NoUser

\* C23: ProtectedRoute renders its children only to an authorised user: for
\* every non-empty allowedRoles, whenever the children are rendered loading is
\* false, user is non-null and profile.role is one of allowedRoles; once
\* loading is false, a null user is redirected to /login and a user whose
\* role is not allowed is redirected to the dashboard of that role.
C23_ChildrenOnlyForAuthorised ==
    \A allowedRoles \in (SUBSET Roles) \ {{}} :
        /\ ProtectedRoute(allowedRoles) = "children" =>
               /\ ~auth.loading
               /\ auth.user # NoUser
               /\ auth.profile \in allowedRoles
        /\ (~auth.loading /\ auth.user = NoUser) =>
               ProtectedRoute(allowedRoles) = "/login"
        /\ (~auth.loading /\ auth.user # NoUser /\ auth.profile \notin allowedRoles) =>
               /\ auth.profile \in Roles
               /\ ProtectedRoute(allowedRoles) =
                      IF auth.profile = "student" THEN "/student/dashboard"
                      ELSE "/counselor/dashboard"

\* a student is loaded: the student routes render their children, the
\* counselor routes send the student to the student dashboard
C23_Witness ==
    /\ ~auth.loading
    /\ auth.user = "s1"
    /\ auth.profile = "student"
    /\ ProtectedRoute({"student"}) = "children"
    /\ ProtectedRoute({"counselor"}) = "/student/dashboard"

\* C24: AuthProvider always leaves its loading state: provided every call it
\* awaits returns in the end, loading becomes false, whether getSession,
\* getCurrentUserProfile and recordLogin succeed or fail, and from then on it
\* is never true again.
C24_LoadingEnds == <>[](auth.loading = FALSE)

\* loading is false after an initializeAuth whose recordLogin failed
C24_Witness ==
    /\ auth.loading = FALSE
    /\ auth.pc["initializeAuth"] = "done"
    /\ call["initializeAuth"].op = "recordLogin"
    /\ call["initializeAuth"].error = StoreUnavailable

====
